---- MODULE Spec2Model ----
(***************************************************************************)
(* A model of client/src/client.rs: the default-argument elision           *)
(* (handle_defaults), the credential resolver (Auth::get_user_pass),       *)
(* Client::new, the command wrappers of RpcApi and the dispatcher          *)
(* (Client::call).                                                         *)
(*                                                                         *)
(* A serde_json::Value is modelled by its JSON text (a string): "null",    *)
(* "0", "true", "[]", "{}", "\"abc\"".  A Rust String is modelled by the   *)
(* sequence of its characters (one-character strings).  Slice indices are  *)
(* 0-based in the source; At(s, i) reads the 0-based index i.              *)
(***************************************************************************)
EXTENDS Integers, Sequences, FiniteSets, TLC

\* ---------------------------------------------------------------- bounds
MaxArgs == 3

MaxCookieLen == 3

MaxNew == 2

MaxStrLen == 3

MaxBytes == 2

\* ------------------------------------------------------- JSON wire values
Null == "null"

NonNullValues == {"0", "2", "5"}

Values == {Null} \cup NonNullValues

At(s, i) == s[i + 1]

Prefix(s, n) == SubSeq(s, 1, n)

SeqsUpTo(S, n) == UNION {[1..k -> S] : k \in 0..n}

\* ------------------------------------------------ handle_defaults (pure)
\* Option<usize>::None of first_non_null_optional_idx
NoneIdx == -1

\* C1 mutant: the `else if` loses its is_none() test, so the index ends at the
\* leftmost non-null optional slot instead of the rightmost.
hd_step_leftmost(st, defaults, i) ==
    LET args_i == Len(st.args) - 1 - i
        defaults_i == Len(defaults) - 1 - i
    IN  IF At(st.args, args_i) = Null
        THEN IF st.first # NoneIdx
             THEN IF At(defaults, defaults_i) = Null
                  THEN [st EXCEPT !.panic = TRUE]
                  ELSE [st EXCEPT !.args[args_i + 1] = At(defaults, defaults_i)]
             ELSE st
        ELSE [st EXCEPT !.first = args_i]

\* C3 mutant: the null slot left of an explicit value is not overwritten.
hd_step_nofill(st, defaults, i) ==
    LET args_i == Len(st.args) - 1 - i
        defaults_i == Len(defaults) - 1 - i
    IN  IF At(st.args, args_i) = Null
        THEN IF st.first # NoneIdx
             THEN IF At(defaults, defaults_i) = Null
                  THEN [st EXCEPT !.panic = TRUE]
                  ELSE st
             ELSE st
        ELSE IF st.first = NoneIdx
             THEN [st EXCEPT !.first = args_i]
             ELSE st

\* C4 mutant: the missing-default test is made before looking whether an
\* explicit value was seen, so a trailing null with a null default aborts.
hd_step_eagerpanic(st, defaults, i) ==
    LET args_i == Len(st.args) - 1 - i
        defaults_i == Len(defaults) - 1 - i
    IN  IF At(st.args, args_i) = Null
        THEN IF At(defaults, defaults_i) = Null
             THEN [st EXCEPT !.panic = TRUE]
             ELSE IF st.first # NoneIdx
                  THEN [st EXCEPT !.args[args_i + 1] = At(defaults, defaults_i)]
                  ELSE st
        ELSE IF st.first = NoneIdx
             THEN [st EXCEPT !.first = args_i]
             ELSE st

\* C15 mutant: a gap whose default is null is filled with that null instead
\* of aborting.
hd_step_nopanic(st, defaults, i) ==
    LET args_i == Len(st.args) - 1 - i
        defaults_i == Len(defaults) - 1 - i
    IN  IF At(st.args, args_i) = Null
        THEN IF st.first # NoneIdx
             THEN [st EXCEPT !.args[args_i + 1] = At(defaults, defaults_i)]
             ELSE st
        ELSE IF st.first = NoneIdx
             THEN [st EXCEPT !.first = args_i]
             ELSE st

\* One iteration of the backward pass (the body of `for i in 0..defaults.len()`).
\* st = [args, first, panic]: the mutable slice, first_non_null_optional_idx,
\* and whether panic! was reached.
hd_step(st, defaults, i) ==
    LET args_i == Len(st.args) - 1 - i
        defaults_i == Len(defaults) - 1 - i
    IN  IF At(st.args, args_i) = Null
        THEN IF st.first # NoneIdx
             THEN IF At(defaults, defaults_i) = Null
                  THEN [st EXCEPT !.panic = TRUE]
                  ELSE [st EXCEPT !.args[args_i + 1] = At(defaults, defaults_i)]
             ELSE st
        ELSE IF st.first = NoneIdx
             THEN [st EXCEPT !.first = args_i]
             ELSE st

RECURSIVE hd_loop(_, _, _)
\* The for loop from iteration i on; a panic leaves the loop at once.
hd_loop(st, defaults, i) ==
    IF st.panic \/ i >= Len(defaults)
    THEN st
    ELSE hd_loop(hd_step(st, defaults, i), defaults, i + 1)

\* C2 mutant: with no explicit optional value the whole slice is returned.
hd_slice_keepall(args, first, required_num) ==
    IF first # NoneIdx
    THEN Prefix(args, first + 1)
    ELSE args

\* C5 mutant: off-by-one in the required prefix.
hd_slice_offbyone(args, first, required_num) ==
    IF first # NoneIdx
    THEN Prefix(args, first + 1)
    ELSE Prefix(args, required_num - 1)

\* The returned sub-slice: &args[..i + 1] or &args[..required_num].
hd_slice(args, first, required_num) ==
    IF first # NoneIdx
    THEN Prefix(args, first + 1)
    ELSE Prefix(args, required_num)

\* handle_defaults(args, defaults): [panic |-> the call aborted (assert! or
\* panic!), ret |-> the returned slice (<<>> when it aborted)].
handle_defaults(args, defaults) ==
    IF ~(Len(args) >= Len(defaults))
    THEN [panic |-> TRUE, ret |-> <<>>]
    ELSE LET st == hd_loop([args |-> args, first |-> NoneIdx, panic |-> FALSE],
                           defaults, 0)
             required_num == Len(args) - Len(defaults)
         IN  IF st.panic
             THEN [panic |-> TRUE, ret |-> <<>>]
             ELSE [panic |-> FALSE, ret |-> hd_slice(st.args, st.first, required_num)]


\* ------------------------------------------------------ Option<String>
NoneStr == [some |-> FALSE, v |-> <<>>]

SomeStr(s) == [some |-> TRUE, v |-> s]

\* ------------------------------------------------- the credential file
\* characters a cookie file may hold
CookieChars == {"a", "s", ":"}

\* The file at the CookieFile path: whether File::open succeeds, whether
\* read_to_string succeeds, and the contents read.
Files ==
    {[open_ok |-> FALSE, read_ok |-> FALSE, contents |-> <<>>],
     [open_ok |-> TRUE, read_ok |-> FALSE, contents |-> <<>>]}
    \cup {[open_ok |-> TRUE, read_ok |-> TRUE, contents |-> c] :
             c \in SeqsUpTo(CookieChars, MaxCookieLen)}

\* the credential descriptors a caller may pass
Auths ==
    {[kind |-> "None", u |-> <<>>, p |-> <<>>],
     [kind |-> "CookieFile", u |-> <<>>, p |-> <<>>],
     [kind |-> "UserPass", u |-> <<"a">>, p |-> <<"s", ":">>]}

\* the 1-based position of the first ":" in s, 0 when there is none
FirstColon(s) ==
    IF \E k \in 1..Len(s) : s[k] = ":"
    THEN CHOOSE k \in 1..Len(s) : s[k] = ":" /\ \A j \in 1..(k - 1) : s[j] # ":"
    ELSE 0

\* C8 mutant: the content is split at every colon (split instead of
\* splitn(2, ..)), so the password ends at the second colon.
splitn2_all(s) ==
    IF FirstColon(s) = 0
    THEN <<s>>
    ELSE LET rest == SubSeq(s, FirstColon(s) + 1, Len(s))
         IN  <<SubSeq(s, 1, FirstColon(s) - 1),
               IF FirstColon(rest) = 0 THEN rest
               ELSE SubSeq(rest, 1, FirstColon(rest) - 1)>>

\* contents.splitn(2, ":"): the items the iterator yields, in order
splitn2(s) ==
    IF FirstColon(s) = 0
    THEN <<s>>
    ELSE <<SubSeq(s, 1, FirstColon(s) - 1), SubSeq(s, FirstColon(s) + 1, Len(s))>>

\* The conversion of a foreign error into the crate's Error by `?` and by
\* map_err(Error::from): the variant wraps the error it was made from.
Error_from(e) ==
    CASE e = "io" -> "Io"
      [] e = "jsonrpc_transport" -> "JsonRpc(transport)"
      [] e = "jsonrpc_rpc" -> "JsonRpc(Rpc)"
      [] e = "jsonrpc_json" -> "JsonRpc(Json)"
      [] e = "serde_json" -> "Json"
      [] OTHER -> e

NoError == "none"

\* Auth::get_user_pass(self), run against the file f: [ok, err, user, pass,
\* opened |-> File::open was called].
get_user_pass(auth, f) ==
    CASE auth.kind = "None" ->
           [ok |-> TRUE, err |-> NoError, user |-> NoneStr, pass |-> NoneStr,
            opened |-> FALSE]
      [] auth.kind = "UserPass" ->
           [ok |-> TRUE, err |-> NoError, user |-> SomeStr(auth.u),
            pass |-> SomeStr(auth.p), opened |-> FALSE]
      [] auth.kind = "CookieFile" ->
           IF ~f.open_ok \/ ~f.read_ok
           THEN [ok |-> FALSE, err |-> Error_from("io"), user |-> NoneStr,
                 pass |-> NoneStr, opened |-> TRUE]
           ELSE LET split == splitn2(f.contents)
                IN  IF Len(split) < 2
                    THEN [ok |-> FALSE, err |-> "InvalidCookieFile",
                          user |-> NoneStr, pass |-> NoneStr, opened |-> TRUE]
                    ELSE [ok |-> TRUE, err |-> NoError,
                          user |-> SomeStr(split[1]), pass |-> SomeStr(split[2]),
                          opened |-> TRUE]


\* ------------------------------------------------- typed Rust values
\* A serializable Rust value: a bool, an unsigned number, a string (its
\* characters) or a value of a domain type known by its serialized JSON text.
BoolVal(b) == [ty |-> "bool", b |-> b, n |-> 0, s |-> <<>>]

NumVal(n) == [ty |-> "num", b |-> FALSE, n |-> n, s |-> <<>>]

StrVal(s) == [ty |-> "str", b |-> FALSE, n |-> 0, s |-> s]

SerVal(text) == [ty |-> "ser", b |-> FALSE, n |-> 0, s |-> <<text>>]

RECURSIVE Join(_)
\* the text of a String
Join(s) == IF s = <<>> THEN "" ELSE Head(s) \o Join(Tail(s))

\* `s.into()` for a string: the JSON string value
JStr(s) == "\"" \o Join(s) \o "\""

\* into_json(val): serde_json::to_value(val)
into_json(val) ==
    CASE val.ty = "bool" -> (IF val.b THEN "true" ELSE "false")
      [] val.ty = "num" -> ToString(val.n)
      [] val.ty = "str" -> JStr(val.s)
      [] val.ty = "ser" -> val.s[1]

\* Option<T>
NoneVal == [some |-> FALSE, val |-> NumVal(0)]

SomeVal(v) == [some |-> TRUE, val |-> v]

\* opt_into_json(opt)
opt_into_json(opt) == IF opt.some THEN into_json(opt.val) ELSE Null

empty_arr == "[]"

empty_obj == "{}"

\* the values a caller may pass for an optional parameter of each type
OptBool == {NoneVal, SomeVal(BoolVal(TRUE))}

OptNum == {NoneVal, SomeVal(NumVal(6))}

OptStr == {NoneVal, SomeVal(StrVal(<<"x">>))}

OptSer == {NoneVal, SomeVal(SerVal("{\"k\":1}"))}

\* ------------------------------------------------------- RawTx::raw_hex
HexDigits == <<"0", "1", "2", "3", "4", "5", "6", "7",
               "8", "9", "a", "b", "c", "d", "e", "f">>

HexDigitsUpper == <<"0", "1", "2", "3", "4", "5", "6", "7",
                    "8", "9", "A", "B", "C", "D", "E", "F">>

RECURSIVE hex_encode_upper(_)
\* C13 mutant: the encoder writes uppercase digits.
hex_encode_upper(bytes) ==
    IF bytes = <<>>
    THEN <<>>
    ELSE <<HexDigitsUpper[(Head(bytes) \div 16) + 1],
           HexDigitsUpper[(Head(bytes) % 16) + 1]>>
         \o hex_encode_upper(Tail(bytes))

RECURSIVE hex_encode(_)
\* hex::encode(bytes): two lowercase digits per byte
hex_encode(bytes) ==
    IF bytes = <<>>
    THEN <<>>
    ELSE <<HexDigits[(Head(bytes) \div 16) + 1], HexDigits[(Head(bytes) % 16) + 1]>>
         \o hex_encode(Tail(bytes))

\* A RawTx argument: repr names the impl (&Transaction, &[u8], &Vec<u8>, &str,
\* String); chars is the text of a string input; bytes is the byte buffer, or
\* the consensus serialization of the transaction.
RawTxOf(repr, chars, bytes) == [repr |-> repr, chars |-> chars, bytes |-> bytes]

\* the ASCII code of a character of a raw transaction string
AsciiOf(c) ==
    CASE c = "0" -> 48 [] c = "1" -> 49 [] c = "2" -> 50 [] c = "3" -> 51
      [] c = "4" -> 52 [] c = "5" -> 53 [] c = "6" -> 54 [] c = "7" -> 55
      [] c = "8" -> 56 [] c = "9" -> 57 [] c = "a" -> 97 [] c = "b" -> 98
      [] c = "c" -> 99 [] c = "d" -> 100 [] c = "e" -> 101 [] c = "f" -> 102
      [] c = "F" -> 70 [] c = "z" -> 122

\* C14 mutant: the String impl hex-encodes the bytes of the string, as the
\* byte-buffer impls do.
raw_hex_string_as_bytes(tx) ==
    CASE tx.repr = "Transaction" -> hex_encode(tx.bytes)
      [] tx.repr = "slice" -> hex_encode(tx.bytes)
      [] tx.repr = "Vec" -> hex_encode(tx.bytes)
      [] tx.repr = "str" -> tx.chars
      [] tx.repr = "String" -> hex_encode([k \in 1..Len(tx.chars) |-> AsciiOf(tx.chars[k])])

\* RawTx::raw_hex(self): the String produced
raw_hex(tx) ==
    CASE tx.repr = "Transaction" -> hex_encode(tx.bytes)
      [] tx.repr = "slice" -> hex_encode(tx.bytes)
      [] tx.repr = "Vec" -> hex_encode(tx.bytes)
      [] tx.repr = "str" -> tx.chars
      [] tx.repr = "String" -> tx.chars

\* the raw transactions passed by test_raw_tx, one per representation
RawTxInputs ==
    {RawTxOf("Transaction", <<>>, <<2, 0, 171>>),
     RawTxOf("slice", <<>>, <<2, 0, 171>>),
     RawTxOf("Vec", <<>>, <<222, 173>>),
     RawTxOf("str", <<"d", "e", "a", "d">>, <<>>),
     RawTxOf("String", <<"d", "e", "a", "d">>, <<>>)}

\* ------------------------------------------------------- the transport
\* result payloads of a response: null, a value of the expected shape, a
\* value of another shape
ResultShapes == {"null", "good", "bad"}

\* What send_request returns: a transport error, or a response envelope with
\* or without a remote fault.
TransportError == [ok |-> FALSE, fault |-> FALSE, result |-> "null"]

TransportOutcomes ==
    {TransportError}
    \cup {[ok |-> TRUE, fault |-> f, result |-> r] : f \in BOOLEAN, r \in ResultShapes}

\* the result types T a command is called with: () , serde_json::Value, or a
\* structured type
ResultTypes == {"unit", "value", "typed"}

\* serde_json::from_value::<T>(result) succeeds
from_value_ok(T, result) ==
    CASE T = "value" -> TRUE
      [] T = "unit" -> result = "null"
      [] T = "typed" -> result = "good"

\* Response::into_result::<T>(): the fault if there is one, else the decoded
\* result
\* result; decoded tells whether from_value was run on the result payload
into_result(resp, T) ==
    IF resp.fault
    THEN [ok |-> FALSE, err |-> "jsonrpc_rpc", val |-> "none", decoded |-> FALSE]
    ELSE IF from_value_ok(T, resp.result)
         THEN [ok |-> TRUE, err |-> NoError, val |-> resp.result, decoded |-> TRUE]
         ELSE [ok |-> FALSE, err |-> "jsonrpc_json", val |-> "none", decoded |-> TRUE]

\* C16 mutant: a payload that fails to decode is turned into Ok(None).
opt_result_swallow(result, T) ==
    IF result = "null"
    THEN [ok |-> TRUE, some |-> FALSE, err |-> NoError, val |-> "none"]
    ELSE IF from_value_ok(T, result)
         THEN [ok |-> TRUE, some |-> TRUE, err |-> NoError, val |-> result]
         ELSE [ok |-> TRUE, some |-> FALSE, err |-> NoError, val |-> "none"]

\* opt_result::<T>(result): Ok(None) for a null result, else
\* from_value::<Option<T>>(result), which is Some(v) or a decoding error
opt_result(result, T) ==
    IF result = "null"
    THEN [ok |-> TRUE, some |-> FALSE, err |-> NoError, val |-> "none"]
    ELSE IF from_value_ok(T, result)
         THEN [ok |-> TRUE, some |-> TRUE, err |-> NoError, val |-> result]
         ELSE [ok |-> FALSE, some |-> FALSE, err |-> Error_from("serde_json"),
               val |-> "none"]

\* opt_result was not applied
NoOpt == [ok |-> FALSE, some |-> FALSE, err |-> NoError, val |-> "none"]

\* C10 mutant: a failed send_request is tried a second time before the
\* failure is returned, so two requests go out for one call.
Call_retry(cmd, args, T, t, debug) ==
    [cmd |-> cmd, args |-> args, T |-> T,
     sends |-> IF t.ok THEN 1 ELSE 2,
     transport |-> t,
     log |-> (IF debug THEN <<"JSON-RPC request">> ELSE <<>>)
             \o (IF debug /\ t.ok THEN <<"JSON-RPC response">> ELSE <<>>),
     ret |-> IF ~t.ok
             THEN [ok |-> FALSE, err |-> Error_from("jsonrpc_transport"), val |-> "none",
                   decoded |-> FALSE]
             ELSE LET r == into_result(t, T)
                  IN  [r EXCEPT !.err = Error_from(r.err)]]

\* C11 mutant: the result payload of the envelope is decoded without looking
\* at the fault first.
Call_ignore_fault(cmd, args, T, t, debug) ==
    [cmd |-> cmd, args |-> args, T |-> T,
     sends |-> 1,
     transport |-> t,
     log |-> (IF debug THEN <<"JSON-RPC request">> ELSE <<>>)
             \o (IF debug /\ t.ok THEN <<"JSON-RPC response">> ELSE <<>>),
     ret |-> IF ~t.ok
             THEN [ok |-> FALSE, err |-> Error_from("jsonrpc_transport"), val |-> "none",
                   decoded |-> FALSE]
             ELSE IF from_value_ok(T, t.result)
                  THEN [ok |-> TRUE, err |-> NoError, val |-> t.result, decoded |-> TRUE]
                  ELSE [ok |-> FALSE, err |-> Error_from("jsonrpc_json"), val |-> "none",
                        decoded |-> TRUE]]

\* C12 mutant: with debug logging on, a response that cannot be rendered for
\* the log line makes the call fail (the unwrap of to_string turned into `?`).
Call_log_fails(cmd, args, T, t, debug) ==
    [cmd |-> cmd, args |-> args, T |-> T,
     sends |-> 1,
     transport |-> t,
     log |-> (IF debug THEN <<"JSON-RPC request">> ELSE <<>>)
             \o (IF debug /\ t.ok /\ t.result # "bad"
                 THEN <<"JSON-RPC response">> ELSE <<>>),
     ret |-> IF ~t.ok
             THEN [ok |-> FALSE, err |-> Error_from("jsonrpc_transport"), val |-> "none",
                   decoded |-> FALSE]
             ELSE IF debug /\ t.result = "bad"
                  THEN [ok |-> FALSE, err |-> Error_from("jsonrpc_json"), val |-> "none",
                        decoded |-> FALSE]
                  ELSE LET r == into_result(t, T)
                       IN  [r EXCEPT !.err = Error_from(r.err)]]

\* Client::call::<T>(cmd, args) when send_request answers t and debug logging
\* is enabled or not: the request built (cmd, args), the number of
\* send_request calls, the answer of the transport, the log lines written and
\* the value returned.
Call(cmd, args, T, t, debug) ==
    [cmd |-> cmd, args |-> args, T |-> T,
     sends |-> 1,
     transport |-> t,
     log |-> (IF debug THEN <<"JSON-RPC request">> ELSE <<>>)
             \o (IF debug /\ t.ok THEN <<"JSON-RPC response">> ELSE <<>>),
     ret |-> IF ~t.ok
             THEN [ok |-> FALSE, err |-> Error_from("jsonrpc_transport"), val |-> "none",
                   decoded |-> FALSE]
             ELSE LET r == into_result(t, T)
                  IN  [r EXCEPT !.err = Error_from(r.err)]]

\* the fields of lastCall when self.call was not reached
NotCalled ==
    [cmd |-> "", args |-> <<>>, T |-> "unit", sends |-> 0,
     transport |-> TransportError, log |-> <<>>,
     ret |-> [ok |-> FALSE, err |-> NoError, val |-> "none", decoded |-> FALSE]]

\* no RpcApi method invoked yet
NoCall ==
    [fn |-> "", raw |-> "", panicked |-> FALSE, dispatched |-> FALSE, opt |-> NoOpt]
    @@ NotCalled

\* a wrapper that aborted in handle_defaults before reaching self.call
Panicked(fn) ==
    [fn |-> fn, raw |-> "", panicked |-> TRUE, dispatched |-> FALSE, opt |-> NoOpt]
    @@ NotCalled

\* ------------------------------------------------------------------ state
VARIABLES
    in_args,      \* the args array handed to handle_defaults (as passed in)
    in_defaults,  \* the defaults table handed to handle_defaults
    hd,           \* [done, panic, ret]: the outcome of the handle_defaults call
    fs,           \* the file at the cookie path
    client,       \* the Client: [exists, user, pass]
    news,         \* number of Client::new calls made
    resolves,     \* number of Auth::get_user_pass calls made
    fileReads,    \* number of File::open calls made
    lastNew,      \* the last Client::new call and what get_user_pass returned in it
    lastCall,     \* the last RpcApi call (see Call)
    logOn,        \* log_enabled!(Debug)
    cv            \* a conversion helper applied to an input (see NoConv)

hdVars == <<in_args, in_defaults, hd, cv>>

authVars == <<fs, client, news, resolves, fileReads, lastNew>>

vars == <<in_args, in_defaults, hd, fs, client, news, resolves, fileReads,
          lastNew, lastCall, logOn, cv>>

\* cv: kind names the helper under test ("raw_hex", "opt_into_json",
\* "opt_result"), tx / opt / wire and T are its input, step counts the
\* applications made, out1 and out2 are the Strings raw_hex produced, json is
\* what opt_into_json produced and res what opt_result produced.
NoConv ==
    [kind |-> "", tx |-> RawTxOf("str", <<>>, <<>>), opt |-> NoneVal,
     wire |-> "null", T |-> "typed", step |-> 0,
     out1 |-> <<>>, out2 |-> <<>>, json |-> Null, res |-> NoOpt]

NoClient == [exists |-> FALSE, user |-> NoneStr, pass |-> NoneStr]

AuthNone == [kind |-> "None", u |-> <<>>, p |-> <<>>]

NoFile == [open_ok |-> FALSE, read_ok |-> FALSE, contents |-> <<>>]

NoNew ==
    [called |-> FALSE, auth |-> AuthNone, ok |-> FALSE, err |-> NoError,
     io |-> FALSE, user |-> NoneStr, pass |-> NoneStr]

\* ------------------------------------- specification of handle_defaults
InitHD ==
    /\ in_args \in SeqsUpTo(Values, MaxArgs)
    /\ in_defaults \in SeqsUpTo(Values, MaxArgs)
    /\ hd = [done |-> FALSE, panic |-> FALSE, ret |-> <<>>]
    /\ cv = NoConv
    /\ fs = NoFile
    /\ client = NoClient
    /\ news = 0 /\ resolves = 0 /\ fileReads = 0
    /\ lastNew = NoNew
    /\ lastCall = NoCall
    /\ logOn = FALSE

\* The caller invokes handle_defaults(&mut args, &defaults).
Elide ==
    /\ ~hd.done
    /\ LET r == handle_defaults(in_args, in_defaults)
       IN  hd' = [done |-> TRUE, panic |-> r.panic, ret |-> r.ret]
    /\ UNCHANGED <<in_args, in_defaults, cv, authVars, lastCall, logOn>>

NextHD == Elide

SpecHD == InitHD /\ [][NextHD]_vars

\* --------------------------- specification of client construction (auth)
InitAuth ==
    /\ in_args = <<>> /\ in_defaults = <<>>
    /\ hd = [done |-> FALSE, panic |-> FALSE, ret |-> <<>>]
    /\ cv = NoConv
    /\ fs \in Files
    /\ client = NoClient
    /\ news = 0 /\ resolves = 0 /\ fileReads = 0
    /\ lastNew = NoNew
    /\ lastCall = NoCall
    /\ logOn = FALSE

\* Client::new(url, auth)
New ==
    /\ news < MaxNew
    /\ \E auth \in Auths :
         LET r == get_user_pass(auth, fs)
         IN  /\ news' = news + 1
             /\ resolves' = resolves + 1
             /\ fileReads' = fileReads + (IF r.opened THEN 1 ELSE 0)
             /\ client' = IF r.ok
                          THEN [exists |-> TRUE, user |-> r.user, pass |-> r.pass]
                          ELSE client
             /\ lastNew' = [called |-> TRUE, auth |-> auth, ok |-> r.ok,
                            err |-> r.err, io |-> r.opened,
                            user |-> r.user, pass |-> r.pass]
    /\ UNCHANGED <<hdVars, fs, lastCall, logOn>>

\* Client::from_jsonrpc(client): wraps a transport the caller built
from_jsonrpc ==
    /\ client' = [exists |-> TRUE, user |-> NoneStr, pass |-> NoneStr]
    /\ UNCHANGED <<hdVars, fs, news, resolves, fileReads, lastNew, lastCall, logOn>>

\* a client exists and the calling thread has not aborted
Ready == client.exists /\ ~lastCall.panicked

\* C9 mutant: every call resolves the credentials again.
Dispatch_resolving(fn, raw, cmd, args, T) ==
    /\ \E t \in TransportOutcomes :
         lastCall' = [fn |-> fn, raw |-> raw, panicked |-> FALSE, dispatched |-> TRUE,
                      opt |-> NoOpt]
                     @@ Call(cmd, args, T, t, logOn)
    /\ resolves' = resolves + 1
    /\ UNCHANGED <<hdVars, fs, client, news, fileReads, lastNew, logOn>>

\* self.call(cmd, args) made by the RpcApi method fn (raw: the RawTx
\* representation it was given, if any); the transport answers in any way.
Dispatch(fn, raw, cmd, args, T) ==
    /\ \E t \in TransportOutcomes :
         lastCall' = [fn |-> fn, raw |-> raw, panicked |-> FALSE, dispatched |-> TRUE,
                      opt |-> NoOpt]
                     @@ Call(cmd, args, T, t, logOn)
    /\ UNCHANGED <<hdVars, authVars, logOn>>

\* self.call(cmd, handle_defaults(&mut args, &defaults)): a panic in
\* handle_defaults unwinds before self.call is reached.
DispatchElided(fn, raw, cmd, args, defaults, T) ==
    LET h == handle_defaults(args, defaults)
    IN  IF h.panic
        THEN /\ lastCall' = Panicked(fn)
             /\ UNCHANGED <<hdVars, authVars, logOn>>
        ELSE Dispatch(fn, raw, cmd, h.ret, T)

ping ==
    /\ Ready
    /\ Dispatch("ping", "", "ping", <<>>, "unit")

NextAuth == New \/ from_jsonrpc \/ ping

SpecAuth == InitAuth /\ [][NextAuth]_vars

\* ------------------------------- specification of the command wrappers
\* The client of test_raw_tx: Client::new(url, Auth::None).
Init ==
    /\ in_args = <<>> /\ in_defaults = <<>>
    /\ hd = [done |-> FALSE, panic |-> FALSE, ret |-> <<>>]
    /\ cv = NoConv
    /\ fs = NoFile
    /\ LET r == get_user_pass(AuthNone, fs)
       IN  /\ client = [exists |-> r.ok, user |-> r.user, pass |-> r.pass]
           /\ lastNew = [called |-> TRUE, auth |-> AuthNone, ok |-> r.ok,
                         err |-> r.err, io |-> r.opened,
                         user |-> r.user, pass |-> r.pass]
           /\ fileReads = IF r.opened THEN 1 ELSE 0
    /\ news = 1 /\ resolves = 1
    /\ lastCall = NoCall
    /\ logOn \in BOOLEAN

\* values of the required parameters
HashJson == into_json(SerVal("\"00ff\""))

AddressJson == JStr(<<"b", "c", "1">>)

KeyJson == JStr(<<"0", "3", "a", "b">>)

ListJson == into_json(SerVal("[{\"k\":1}]"))

MapJson == into_json(SerVal("{\"bc1\":0.5}"))

add_multisig_address ==
    /\ Ready
    /\ \E label \in OptStr, address_type \in OptSer :
         DispatchElided("add_multisig_address", "", "addmultisigaddress",
             <<into_json(NumVal(2)), ListJson, opt_into_json(label),
               opt_into_json(address_type)>>,
             <<into_json(StrVal(<<>>)), Null>>, "typed")

unload_wallet ==
    /\ Ready
    /\ \E wallet \in OptStr :
         DispatchElided("unload_wallet", "", "unloadwallet",
             <<opt_into_json(wallet)>>, <<Null>>, "unit")

create_wallet ==
    /\ Ready
    /\ \E disable_private_keys \in OptBool :
         DispatchElided("create_wallet", "", "createwallet",
             <<JStr(<<"w">>), opt_into_json(disable_private_keys)>>, <<Null>>, "typed")

backup_wallet ==
    /\ Ready
    /\ \E destination \in OptStr :
         DispatchElided("backup_wallet", "", "backupwallet",
             <<opt_into_json(destination)>>, <<Null>>, "unit")

get_raw_transaction ==
    /\ Ready
    /\ \E block_hash \in OptSer :
         DispatchElided("get_raw_transaction", "", "getrawtransaction",
             <<HashJson, into_json(BoolVal(FALSE)), opt_into_json(block_hash)>>,
             <<Null>>, "typed")

get_raw_transaction_hex ==
    /\ Ready
    /\ \E block_hash \in OptSer :
         DispatchElided("get_raw_transaction_hex", "", "getrawtransaction",
             <<HashJson, into_json(BoolVal(FALSE)), opt_into_json(block_hash)>>,
             <<Null>>, "typed")

get_raw_transaction_verbose ==
    /\ Ready
    /\ \E block_hash \in OptSer :
         DispatchElided("get_raw_transaction_verbose", "", "getrawtransaction",
             <<HashJson, into_json(BoolVal(TRUE)), opt_into_json(block_hash)>>,
             <<Null>>, "typed")

get_received_by_address ==
    /\ Ready
    /\ \E minconf \in OptNum :
         DispatchElided("get_received_by_address", "", "getreceivedbyaddress",
             <<AddressJson, opt_into_json(minconf)>>, <<Null>>, "typed")

get_transaction ==
    /\ Ready
    /\ \E include_watchonly \in OptBool :
         DispatchElided("get_transaction", "", "gettransaction",
             <<HashJson, opt_into_json(include_watchonly)>>, <<Null>>, "typed")

list_transactions ==
    /\ Ready
    /\ \E label \in OptStr, count \in OptNum, skip \in OptNum,
          include_watchonly \in OptBool :
         DispatchElided("list_transactions", "", "listtransactions",
             <<IF label.some THEN JStr(label.val.s) ELSE JStr(<<"*">>),
               opt_into_json(count), opt_into_json(skip),
               opt_into_json(include_watchonly)>>,
             <<into_json(NumVal(10)), into_json(NumVal(0)), Null>>, "typed")

\* opt_result(self.call("gettxout", handle_defaults(..))?): the call is made
\* with T = serde_json::Value and its Ok value goes through opt_result, whose
\* outcome is kept in lastCall.opt.
get_tx_out ==
    /\ Ready
    /\ \E include_mempool \in OptBool :
         LET h == handle_defaults(
                      <<HashJson, into_json(NumVal(1)), opt_into_json(include_mempool)>>,
                      <<Null>>)
         IN  IF h.panic
             THEN lastCall' = Panicked("get_tx_out")
             ELSE \E t \in TransportOutcomes :
                    LET c == Call("gettxout", h.ret, "value", t, logOn)
                    IN  lastCall' =
                          [fn |-> "get_tx_out", raw |-> "", panicked |-> FALSE,
                           dispatched |-> TRUE,
                           opt |-> IF c.ret.ok
                                   THEN opt_result(c.ret.val, "typed")
                                   ELSE [NoOpt EXCEPT !.err = c.ret.err]]
                          @@ c
    /\ UNCHANGED <<hdVars, authVars, logOn>>

get_tx_out_proof ==
    /\ Ready
    /\ \E block_hash \in OptSer :
         DispatchElided("get_tx_out_proof", "", "gettxoutproof",
             <<ListJson, opt_into_json(block_hash)>>, <<Null>>, "typed")

import_public_key ==
    /\ Ready
    /\ \E label \in OptStr, rescan \in OptBool :
         DispatchElided("import_public_key", "", "importpubkey",
             <<KeyJson, opt_into_json(label), opt_into_json(rescan)>>,
             <<into_json(StrVal(<<>>)), Null>>, "unit")

import_priv_key ==
    /\ Ready
    /\ \E label \in OptStr, rescan \in OptBool :
         DispatchElided("import_priv_key", "", "importprivkey",
             <<KeyJson, opt_into_json(label), opt_into_json(rescan)>>,
             <<into_json(StrVal(<<>>)), Null>>, "unit")

import_address ==
    /\ Ready
    /\ \E label \in OptStr, rescan \in OptBool, p2sh \in OptBool :
         DispatchElided("import_address", "", "importaddress",
             <<AddressJson, opt_into_json(label), opt_into_json(rescan),
               opt_into_json(p2sh)>>,
             <<into_json(StrVal(<<>>)), into_json(BoolVal(TRUE)), Null>>, "unit")

import_multi ==
    /\ Ready
    /\ \E options \in OptSer :
         DispatchElided("import_multi", "", "importmulti",
             <<ListJson, opt_into_json(options)>>, <<Null>>, "typed")

key_pool_refill ==
    /\ Ready
    /\ \E new_size \in OptNum :
         DispatchElided("key_pool_refill", "", "keypoolrefill",
             <<opt_into_json(new_size)>>, <<Null>>, "unit")

list_unspent ==
    /\ Ready
    /\ \E minconf \in OptNum, maxconf \in OptNum, addresses \in OptSer,
          include_unsafe \in OptBool, query_options \in OptSer :
         DispatchElided("list_unspent", "", "listunspent",
             <<opt_into_json(minconf), opt_into_json(maxconf),
               opt_into_json(addresses), opt_into_json(include_unsafe),
               opt_into_json(query_options)>>,
             <<into_json(NumVal(0)), into_json(NumVal(9999999)), empty_arr,
               into_json(BoolVal(TRUE)), Null>>, "typed")

list_received_by_address ==
    /\ Ready
    /\ \E address_filter \in OptSer, minconf \in OptNum, include_empty \in OptBool,
          include_watchonly \in OptBool :
         DispatchElided("list_received_by_address", "", "listreceivedbyaddress",
             <<opt_into_json(minconf), opt_into_json(include_empty),
               opt_into_json(include_watchonly), opt_into_json(address_filter)>>,
             <<into_json(NumVal(1)), into_json(BoolVal(FALSE)),
               into_json(BoolVal(FALSE)), Null>>, "typed")

create_raw_transaction_hex ==
    /\ Ready
    /\ \E locktime \in OptNum, replaceable \in OptBool :
         DispatchElided("create_raw_transaction_hex", "", "createrawtransaction",
             <<ListJson, MapJson, opt_into_json(locktime), opt_into_json(replaceable)>>,
             <<into_json(NumVal(0)), Null>>, "typed")

\* calls create_raw_transaction_hex and decodes what it returns
create_raw_transaction ==
    /\ Ready
    /\ \E locktime \in OptNum, replaceable \in OptBool :
         DispatchElided("create_raw_transaction", "", "createrawtransaction",
             <<ListJson, MapJson, opt_into_json(locktime), opt_into_json(replaceable)>>,
             <<into_json(NumVal(0)), Null>>, "typed")

fund_raw_transaction ==
    /\ Ready
    /\ \E tx \in RawTxInputs, options \in OptSer, is_witness \in OptBool :
         DispatchElided("fund_raw_transaction", tx.repr, "fundrawtransaction",
             <<JStr(raw_hex(tx)), opt_into_json(options), opt_into_json(is_witness)>>,
             <<empty_obj, Null>>, "typed")

sign_raw_transaction ==
    /\ Ready
    /\ \E tx \in RawTxInputs, utxos \in OptSer, private_keys \in OptSer,
          sighash_type \in OptSer :
         DispatchElided("sign_raw_transaction", tx.repr, "signrawtransaction",
             <<JStr(raw_hex(tx)), opt_into_json(utxos), opt_into_json(private_keys),
               opt_into_json(sighash_type)>>,
             <<empty_arr, empty_arr, Null>>, "typed")

sign_raw_transaction_with_wallet ==
    /\ Ready
    /\ \E tx \in RawTxInputs, utxos \in OptSer, sighash_type \in OptSer :
         DispatchElided("sign_raw_transaction_with_wallet", tx.repr,
             "signrawtransactionwithwallet",
             <<JStr(raw_hex(tx)), opt_into_json(utxos), opt_into_json(sighash_type)>>,
             <<empty_arr, Null>>, "typed")

sign_raw_transaction_with_key ==
    /\ Ready
    /\ \E tx \in RawTxInputs, prevtxs \in OptSer, sighash_type \in OptSer :
         DispatchElided("sign_raw_transaction_with_key", tx.repr,
             "signrawtransactionwithkey",
             <<JStr(raw_hex(tx)), ListJson, opt_into_json(prevtxs),
               opt_into_json(sighash_type)>>,
             <<empty_arr, Null>>, "typed")

get_new_address ==
    /\ Ready
    /\ \E label \in OptStr, address_type \in OptSer :
         Dispatch("get_new_address", "", "getnewaddress",
             <<opt_into_json(label), opt_into_json(address_type)>>, "typed")

generate ==
    /\ Ready
    /\ \E maxtries \in OptNum :
         Dispatch("generate", "", "generate",
             <<into_json(NumVal(1)), opt_into_json(maxtries)>>, "typed")

send_to_address ==
    /\ Ready
    /\ \E comment \in OptStr, comment_to \in OptStr, substract_fee \in OptBool,
          replaceable \in OptBool, confirmation_target \in OptNum,
          estimate_mode \in OptSer :
         DispatchElided("send_to_address", "", "sendtoaddress",
             <<AddressJson, into_json(SerVal("0.5")), opt_into_json(comment),
               opt_into_json(comment_to), opt_into_json(substract_fee),
               opt_into_json(replaceable), opt_into_json(confirmation_target),
               opt_into_json(estimate_mode)>>,
             [k \in 1..6 |-> Null], "typed")

send_raw_transaction ==
    /\ Ready
    /\ \E tx \in RawTxInputs :
         Dispatch("send_raw_transaction", tx.repr, "sendrawtransaction",
             <<JStr(raw_hex(tx))>>, "typed")

estimate_smartfee ==
    /\ Ready
    /\ \E estimate_mode \in OptSer :
         DispatchElided("estimate_smartfee", "", "estimatesmartfee",
             <<into_json(NumVal(6)), opt_into_json(estimate_mode)>>, <<Null>>, "typed")

Next ==
    \/ add_multisig_address
    \/ unload_wallet
    \/ create_wallet
    \/ backup_wallet
    \/ get_raw_transaction
    \/ get_raw_transaction_hex
    \/ get_raw_transaction_verbose
    \/ get_received_by_address
    \/ get_transaction
    \/ list_transactions
    \/ get_tx_out
    \/ get_tx_out_proof
    \/ import_public_key
    \/ import_priv_key
    \/ import_address
    \/ import_multi
    \/ key_pool_refill
    \/ list_unspent
    \/ list_received_by_address
    \/ create_raw_transaction_hex
    \/ create_raw_transaction
    \/ fund_raw_transaction
    \/ sign_raw_transaction
    \/ sign_raw_transaction_with_wallet
    \/ sign_raw_transaction_with_key
    \/ get_new_address
    \/ generate
    \/ send_to_address
    \/ ping
    \/ send_raw_transaction
    \/ estimate_smartfee

Spec == Init /\ [][Next]_vars

\* ------------------------------ specification of the conversion helpers
\* characters of a raw transaction string: lowercase hex digits, an uppercase
\* hex digit and a character that is no hex digit
TxChars == {"0", "a", "F", "z"}

ByteValues == {0, 171, 255}

ConvRawInputs ==
    {RawTxOf(r, c, <<>>) : r \in {"str", "String"}, c \in SeqsUpTo(TxChars, MaxStrLen)}
    \cup {RawTxOf(r, <<>>, b) : r \in {"Transaction", "slice", "Vec"},
                                 b \in SeqsUpTo(ByteValues, MaxBytes)}

OptInputs ==
    OptBool \cup OptNum \cup OptStr \cup OptSer
    \cup {SomeVal(BoolVal(FALSE)), SomeVal(NumVal(0)), SomeVal(StrVal(<<>>))}

InitConv ==
    /\ in_args = <<>> /\ in_defaults = <<>>
    /\ hd = [done |-> FALSE, panic |-> FALSE, ret |-> <<>>]
    /\ fs = NoFile
    /\ client = NoClient
    /\ news = 0 /\ resolves = 0 /\ fileReads = 0
    /\ lastNew = NoNew
    /\ lastCall = NoCall
    /\ logOn = FALSE
    /\ cv \in {[NoConv EXCEPT !.kind = "raw_hex", !.tx = x] : x \in ConvRawInputs}
              \cup {[NoConv EXCEPT !.kind = "opt_into_json", !.opt = o] : o \in OptInputs}
              \cup {[NoConv EXCEPT !.kind = "opt_result", !.wire = w, !.T = T] :
                       w \in ResultShapes, T \in ResultTypes}

\* tx.raw_hex()
ApplyRawHex ==
    /\ cv.kind = "raw_hex" /\ cv.step = 0
    /\ cv' = [cv EXCEPT !.step = 1, !.out1 = raw_hex(cv.tx)]
    /\ UNCHANGED <<in_args, in_defaults, hd, authVars, lastCall, logOn>>

\* the String produced is passed to raw_hex again, borrowed or owned
ReapplyRawHex ==
    /\ cv.kind = "raw_hex" /\ cv.step = 1
    /\ \E r \in {"str", "String"} :
         cv' = [cv EXCEPT !.step = 2, !.out2 = raw_hex(RawTxOf(r, cv.out1, <<>>))]
    /\ UNCHANGED <<in_args, in_defaults, hd, authVars, lastCall, logOn>>

\* opt_into_json(opt)
ApplyOptIntoJson ==
    /\ cv.kind = "opt_into_json" /\ cv.step = 0
    /\ cv' = [cv EXCEPT !.step = 1, !.json = opt_into_json(cv.opt)]
    /\ UNCHANGED <<in_args, in_defaults, hd, authVars, lastCall, logOn>>

\* opt_result::<T>(result)
ApplyOptResult ==
    /\ cv.kind = "opt_result" /\ cv.step = 0
    /\ cv' = [cv EXCEPT !.step = 1, !.res = opt_result(cv.wire, cv.T)]
    /\ UNCHANGED <<in_args, in_defaults, hd, authVars, lastCall, logOn>>

NextConv == ApplyRawHex \/ ReapplyRawHex \/ ApplyOptIntoJson \/ ApplyOptResult

SpecConv == InitConv /\ [][NextConv]_vars

\* ------------------------------------------- properties of handle_defaults
N == Len(in_args)

M == Len(in_defaults)

\* the 0-based indices of the optional slots (the last M slots of args)
OptionalSlots == IF M <= N THEN (N - M)..(N - 1) ELSE {}

NonNullOptionalSlots == {k \in OptionalSlots : At(in_args, k) # Null}

SetMax(S) == CHOOSE x \in S : \A y \in S : y <= x

\* the default aligned with the optional slot k
DefaultOf(k) == At(in_defaults, k - (N - M))

\* C1: when some optional slot is non-null and handle_defaults returns
\* normally, the result is the prefix of args ending at the rightmost non-null
\* optional slot r; every null optional slot left of r holds its aligned
\* default and every slot that was non-null keeps its value.
C1_PrefixAtRightmostExplicit ==
    (hd.done /\ ~hd.panic /\ M <= N /\ NonNullOptionalSlots # {}) =>
        LET r == SetMax(NonNullOptionalSlots)
        IN  /\ Len(hd.ret) = r + 1
            /\ \A k \in 0..r :
                 /\ (k \in OptionalSlots /\ At(in_args, k) = Null)
                        => At(hd.ret, k) = DefaultOf(k)
                 /\ At(in_args, k) # Null => At(hd.ret, k) = At(in_args, k)

\* C1 witness: a gap left of the last explicit optional value was filled and
\* a trailing null was cut off.
C1_Witness ==
    /\ hd.done /\ ~hd.panic /\ M <= N /\ NonNullOptionalSlots # {}
    /\ \E k \in OptionalSlots :
          /\ k < SetMax(NonNullOptionalSlots)
          /\ At(in_args, k) = Null
          /\ At(hd.ret, k) = "2"
    /\ SetMax(NonNullOptionalSlots) < N - 1

\* C2: when every optional slot is null, handle_defaults returns exactly the
\* first N - M elements of args, whatever the defaults are.
C2_AllNullDropsOptionals ==
    (hd.done /\ M <= N /\ NonNullOptionalSlots = {}) =>
        /\ ~hd.panic
        /\ hd.ret = Prefix(in_args, N - M)

\* C2 witness: two null optional slots, one with a null default, were dropped
\* behind a required argument.
C2_Witness ==
    /\ hd.done /\ ~hd.panic
    /\ N = 3 /\ M = 2 /\ NonNullOptionalSlots = {}
    /\ At(in_defaults, 0) = Null /\ At(in_defaults, 1) # Null
    /\ hd.ret = <<"0">>

\* exactly the last optional slot is non-null
OnlyLastOptionalSet == M >= 1 /\ M <= N /\ NonNullOptionalSlots = {N - 1}

\* C3 as stated: when exactly the last optional slot is non-null,
\* handle_defaults yields the full array unchanged.
C3_Original_FullArrayUnchanged ==
    (hd.done /\ OnlyLastOptionalSet) => (~hd.panic /\ hd.ret = in_args)

\* C3 amended: when exactly the last optional slot is non-null and
\* handle_defaults returns normally, the result has length N, every required
\* slot and the last slot keep their values, and every other optional slot
\* holds its aligned (non-null) default; the array is unchanged only if M = 1.
C3_FullLengthWithDefaults ==
    (hd.done /\ ~hd.panic /\ OnlyLastOptionalSet) =>
        /\ Len(hd.ret) = N
        /\ \A k \in 0..(N - 1) :
             IF k \in OptionalSlots /\ k # N - 1
             THEN At(hd.ret, k) = DefaultOf(k) /\ At(hd.ret, k) # Null
             ELSE At(hd.ret, k) = At(in_args, k)
        /\ (hd.ret = in_args) <=> (M = 1)

\* C3 witness: two null optional slots left of the only explicit one.
C3_Witness ==
    /\ hd.done /\ ~hd.panic /\ OnlyLastOptionalSet
    /\ M = 3
    /\ hd.ret # in_args

\* C4: with M <= N, handle_defaults aborts if and only if some optional slot
\* is null, some optional slot to its right is non-null and the default
\* aligned with the null slot is null.
C4_PanicIffMissingDefault ==
    (hd.done /\ M <= N) =>
        (hd.panic <=>
            \E k \in OptionalSlots :
                /\ At(in_args, k) = Null
                /\ \E j \in OptionalSlots : j > k /\ At(in_args, j) # Null
                /\ DefaultOf(k) = Null)

\* C4 witness: the abort happened at a gap although the defaults of the
\* slots right of it are fine.
C4_Witness ==
    /\ hd.done /\ hd.panic /\ M <= N
    /\ M = 3
    /\ At(in_args, N - 2) = Null /\ At(in_defaults, M - 2) = Null
    /\ At(in_args, N - 1) # Null

\* C4 second witness (normal return with null defaults that are not needed).
C4_NoAbortCase ==
    /\ hd.done /\ ~hd.panic /\ M = 2 /\ N = 2
    /\ in_defaults = <<Null, Null>>
    /\ in_args = <<"5", Null>>

\* C5: with an empty defaults list handle_defaults is the identity on args.
C5_NoDefaultsIdentity ==
    (hd.done /\ M = 0) => (~hd.panic /\ hd.ret = in_args)

\* C5 witness: a null in a required slot passed through untouched.
C5_Witness ==
    /\ hd.done /\ M = 0 /\ N = 2
    /\ in_args = <<Null, "2">>
    /\ hd.ret = <<Null, "2">>

\* ------------------------------------------- properties of the wrappers
\* C6: no command wrapper hands the dispatcher an argument list that ends
\* in a null placeholder for an unset optional parameter.
C6_NoTrailingNullDispatched ==
    lastCall.dispatched =>
        (lastCall.args = <<>> \/ lastCall.args[Len(lastCall.args)] # Null)

\* C7: whatever combination of present and absent optional parameters the
\* caller passes, no wrapper aborts in handle_defaults.
C7_NoAbortFromUserInput == ~lastCall.panicked

\* --------------------------------------- properties of the auth resolver
HasColon(s) == \E k \in 1..Len(s) : s[k] = ":"

\* C8: what Auth::get_user_pass returned in the last Client::new: nothing for
\* None, the pair as given for UserPass; for CookieFile the text before the
\* first colon and all text after it, InvalidCookieFile when the content has
\* no colon, an I/O error when the file cannot be opened or read; no
\* credentials on failure.
C8_GetUserPass ==
    lastNew.called =>
        /\ lastNew.auth.kind = "None" =>
             /\ lastNew.ok
             /\ lastNew.user = NoneStr /\ lastNew.pass = NoneStr
        /\ lastNew.auth.kind = "UserPass" =>
             /\ lastNew.ok
             /\ lastNew.user = SomeStr(lastNew.auth.u)
             /\ lastNew.pass = SomeStr(lastNew.auth.p)
        /\ (lastNew.auth.kind = "CookieFile" /\ ~(fs.open_ok /\ fs.read_ok)) =>
             /\ ~lastNew.ok
             /\ lastNew.err = "Io"
        /\ (lastNew.auth.kind = "CookieFile" /\ fs.open_ok /\ fs.read_ok
                /\ ~HasColon(fs.contents)) =>
             /\ ~lastNew.ok
             /\ lastNew.err = "InvalidCookieFile"
        /\ (lastNew.auth.kind = "CookieFile" /\ fs.open_ok /\ fs.read_ok
                /\ HasColon(fs.contents)) =>
             /\ lastNew.ok
             /\ lastNew.user.some /\ lastNew.pass.some
             /\ ~HasColon(lastNew.user.v)
             /\ lastNew.user.v \o <<":">> \o lastNew.pass.v = fs.contents
        /\ ~lastNew.ok => (~lastNew.user.some /\ ~lastNew.pass.some)

\* C8 witness: a cookie with a second colon, which stays in the password.
C8_Witness ==
    /\ lastNew.called /\ lastNew.auth.kind = "CookieFile" /\ lastNew.ok
    /\ fs.contents = <<"a", ":", ":">>
    /\ lastNew.user.v = <<"a">>
    /\ lastNew.pass.v = <<":">>

\* C9: Client::new fails only for Auth::CookieFile and does file I/O only for
\* it; credentials are resolved once per Client::new and by nothing else (no
\* call on the client resolves them or opens the cookie file).
C9_ResolvedOnceAtConstruction ==
    /\ lastNew.called =>
         /\ lastNew.auth.kind \in {"None", "UserPass"} => (lastNew.ok /\ ~lastNew.io)
         /\ ~lastNew.ok => lastNew.auth.kind = "CookieFile"
    /\ resolves = news
    /\ fileReads <= news
    /\ news = 0 => fileReads = 0

\* C9 witness: calls were made on a client built from a cookie file, and
\* the file was opened once.
C9_Witness ==
    /\ lastCall.dispatched
    /\ client.exists /\ client.user.some
    /\ lastNew.called /\ lastNew.auth.kind = "CookieFile" /\ lastNew.ok
    /\ news = 1 /\ resolves = 1 /\ fileReads = 1

\* ------------------------------------------ properties of the dispatcher
\* C10: Client::call makes exactly one send_request per invocation; when the
\* transport fails, it returns Err carrying that failure.
C10_OneSendNoRetry ==
    lastCall.dispatched =>
        /\ lastCall.sends = 1
        /\ ~lastCall.transport.ok =>
             /\ ~lastCall.ret.ok
             /\ lastCall.ret.err = Error_from("jsonrpc_transport")

\* C10 witness: send_raw_transaction(&tx) on a transport that fails.
C10_Witness ==
    /\ lastCall.dispatched
    /\ lastCall.fn = "send_raw_transaction" /\ lastCall.raw = "Transaction"
    /\ ~lastCall.transport.ok
    /\ lastCall.sends = 1
    /\ ~lastCall.ret.ok

\* C11: when the transport succeeds and the envelope carries a remote fault,
\* Client::call returns an error carrying the fault and does not decode the
\* result payload; the payload is decoded only for an envelope without a
\* fault, and a shape mismatch there is a decoding error, never an Ok value.
C11_FaultBeforeDecode ==
    lastCall.dispatched =>
        /\ (lastCall.transport.ok /\ lastCall.transport.fault) =>
             /\ ~lastCall.ret.ok
             /\ lastCall.ret.err = Error_from("jsonrpc_rpc")
             /\ ~lastCall.ret.decoded
        /\ lastCall.ret.decoded =>
             (lastCall.transport.ok /\ ~lastCall.transport.fault)
        /\ (lastCall.transport.ok /\ ~lastCall.transport.fault
                /\ ~from_value_ok(lastCall.T, lastCall.transport.result)) =>
             /\ ~lastCall.ret.ok
             /\ lastCall.ret.err = Error_from("jsonrpc_json")
        /\ lastCall.ret.ok =>
             /\ lastCall.transport.ok /\ ~lastCall.transport.fault
             /\ lastCall.ret.val = lastCall.transport.result

\* C11 witness: a fault envelope that also holds a well-shaped result payload.
C11_Witness ==
    /\ lastCall.dispatched
    /\ lastCall.T = "typed"
    /\ lastCall.transport.ok /\ lastCall.transport.fault
    /\ lastCall.transport.result = "good"
    /\ ~lastCall.ret.ok /\ ~lastCall.ret.decoded

\* C12: for the same command, arguments and transport answer, Client::call
\* sends the same request and returns the same outcome with debug logging
\* enabled as with it disabled; the response is logged only when the
\* transport succeeded.
C12_LoggingDoesNotAlterOutcome ==
    lastCall.dispatched =>
        LET other == Call(lastCall.cmd, lastCall.args, lastCall.T,
                          lastCall.transport, ~logOn)
        IN  /\ other.cmd = lastCall.cmd
            /\ other.args = lastCall.args
            /\ other.sends = lastCall.sends
            /\ other.ret = lastCall.ret
            /\ (\E k \in 1..Len(lastCall.log) : lastCall.log[k] = "JSON-RPC response")
                   => (logOn /\ lastCall.transport.ok)
            /\ (\E k \in 1..Len(other.log) : other.log[k] = "JSON-RPC response")
                   => (~logOn /\ lastCall.transport.ok)

\* C12 witness: a call made with logging enabled whose response was logged
\* and whose payload failed to decode.
C12_Witness ==
    /\ lastCall.dispatched
    /\ logOn
    /\ lastCall.log = <<"JSON-RPC request", "JSON-RPC response">>
    /\ lastCall.transport.ok /\ lastCall.transport.result = "bad"
    /\ ~lastCall.ret.ok

\* C15: on every normal return of handle_defaults the returned list has
\* between N - M and N elements, holds no null at any optional position
\* (index >= N - M) and so does not end in a null optional slot.
C15_NoGapNoTrailingNull ==
    (hd.done /\ ~hd.panic /\ M <= N) =>
        /\ N - M <= Len(hd.ret) /\ Len(hd.ret) <= N
        /\ \A k \in OptionalSlots : k < Len(hd.ret) => At(hd.ret, k) # Null
        /\ Len(hd.ret) > N - M => At(hd.ret, Len(hd.ret) - 1) # Null

\* C15 witness: a gap was filled and the trailing null was cut off.
C15_Witness ==
    /\ hd.done /\ ~hd.panic
    /\ N = 3 /\ M = 3
    /\ in_args = <<Null, "5", Null>>
    /\ in_defaults = <<"2", Null, Null>>
    /\ hd.ret = <<"2", "5">>

\* --------------------------------- properties of the conversion helpers
LowerHexChars == {HexDigits[k] : k \in 1..16}

IsLowerHex(str) == \A k \in 1..Len(str) : str[k] \in LowerHexChars

\* the value of a lowercase hex digit
HexVal(c) == (CHOOSE k \in 1..16 : HexDigits[k] = c) - 1

IsStringRepr(tx) == tx.repr \in {"str", "String"}

\* C13 as stated: raw_hex renders every accepted input, strings with
\* uppercase or non-hex characters included, as canonical lowercase hex.
C13_Original_AlwaysLowerHex ==
    (cv.kind = "raw_hex" /\ cv.step >= 1) => IsLowerHex(cv.out1)

\* C13 amended: raw_hex maps a byte slice, a byte vector and a transaction to
\* the lowercase hex encoding of their bytes, two digits per byte; a borrowed
\* or owned string is returned unchanged, so it is lowercase hex exactly when
\* the input was.
C13_BytesEncodedStringsUnchanged ==
    (cv.kind = "raw_hex" /\ cv.step >= 1) =>
        /\ ~IsStringRepr(cv.tx) =>
             /\ IsLowerHex(cv.out1)
             /\ Len(cv.out1) = 2 * Len(cv.tx.bytes)
             /\ \A k \in 1..Len(cv.tx.bytes) :
                  16 * HexVal(cv.out1[2 * k - 1]) + HexVal(cv.out1[2 * k])
                      = cv.tx.bytes[k]
        /\ IsStringRepr(cv.tx) =>
             /\ cv.out1 = cv.tx.chars
             /\ IsLowerHex(cv.out1) <=> IsLowerHex(cv.tx.chars)

\* C13 witness: a byte vector with a byte above 0x9f was encoded.
C13_Witness ==
    /\ cv.kind = "raw_hex" /\ cv.step >= 1
    /\ cv.tx.repr = "Vec"
    /\ cv.tx.bytes = <<171, 0>>
    /\ cv.out1 = <<"a", "b", "0", "0">>

\* C14: raw_hex returns an already-canonical hex string unchanged, in the
\* borrowed and in the owned form, and applying raw_hex to the String it
\* produced for any input returns that String.
C14_RawHexIdempotent ==
    /\ (cv.kind = "raw_hex" /\ cv.step >= 1 /\ IsStringRepr(cv.tx)
            /\ IsLowerHex(cv.tx.chars)) => cv.out1 = cv.tx.chars
    /\ (cv.kind = "raw_hex" /\ cv.step = 2) => cv.out2 = cv.out1

\* C14 witness: the hex of a byte buffer went through raw_hex a second time.
C14_Witness ==
    /\ cv.kind = "raw_hex" /\ cv.step = 2
    /\ cv.tx.repr = "slice"
    /\ cv.out1 = <<"f", "f", "a", "b">>
    /\ cv.out2 = <<"f", "f", "a", "b">>

\* C16: opt_result returns Ok(None) if and only if the wire result is null;
\* for a non-null result it returns Ok(Some(v)) with v decoded from it or a
\* decoding error; opt_into_json maps an absent value to null and a present
\* value to its serialized form.
C16_OptionalConversions ==
    /\ (cv.kind = "opt_result" /\ cv.step = 1) =>
         /\ (cv.res.ok /\ ~cv.res.some) <=> (cv.wire = "null")
         /\ cv.wire # "null" =>
              \/ (cv.res.ok /\ cv.res.some /\ cv.res.val = cv.wire
                    /\ from_value_ok(cv.T, cv.wire))
              \/ (~cv.res.ok /\ cv.res.err = Error_from("serde_json")
                    /\ ~from_value_ok(cv.T, cv.wire))
    /\ (cv.kind = "opt_into_json" /\ cv.step = 1) =>
         /\ ~cv.opt.some => cv.json = Null
         /\ cv.opt.some => (cv.json = into_json(cv.opt.val) /\ cv.json # Null)

\* C16 witness: a non-null result of the wrong shape gave a decoding error.
C16_Witness ==
    /\ cv.kind = "opt_result" /\ cv.step = 1
    /\ cv.wire = "bad" /\ cv.T = "typed"
    /\ ~cv.res.ok

\* get_tx_out returns Ok(None) exactly when the call succeeded with a null
\* result.
GetTxOutNoneIffNull ==
    (lastCall.dispatched /\ lastCall.fn = "get_tx_out") =>
        ((lastCall.opt.ok /\ ~lastCall.opt.some)
            <=> (lastCall.ret.ok /\ lastCall.ret.val = "null"))

====
